---- MODULE Spec2Model ----
(***************************************************************************)
(* State-machine model of the 3D annotator.                                *)
(*                                                                         *)
(* The repository holds the application in several revisions.  Two are     *)
(* modelled: src/unnamed/part_001 (selection panel, text and image         *)
(* annotations, deletion, surface-constrained anchor drag) and             *)
(* src/portfolio/src/App.tsx (a pick creates a text annotation at once).   *)
(* A behaviour runs one revision, chosen in Init; a handler is enabled     *)
(* only in the revision that has it.                                       *)
(*                                                                         *)
(* Three specifications share the state and the actions.  Spec has the     *)
(* session, the store, edit mode and the anchor drag.  SpecContent adds    *)
(* the colour input, the content changes and the content drag, bounded by  *)
(* MaxEdits.  SpecFrame runs the drag handlers and the useFrame callback   *)
(* on a scene of annotations already made.                                 *)
(*                                                                         *)
(* Library behaviour the handlers rest on: an uncaught load error unmounts *)
(* the React tree; a component that suspends keeps its hooks and has its   *)
(* refs detached; DragControls moves its own wrapper group and leaves the  *)
(* position of the object inside to the handler.  The wrapper translation  *)
(* is kept for the content panel (contentDrag) and not for the pivot.      *)
(*                                                                         *)
(* Coordinates are fixed-point integers in hundredths of a scene unit, so  *)
(* that the 0.05 and 0.01 surface offsets are exact: 0.05 is 5, the        *)
(* content panel's offset of 5 units is 500.                               *)
(* Store indices are the 0-based JavaScript indices; sequences are 1-based *)
(* and the operators below convert.                                        *)
(***************************************************************************)
EXTENDS Integers, Sequences, FiniteSets, TLC

\* ------------------------------------------------------------------ bounds
\* Total number of records ever appended in one behaviour.
MaxRecords == 2
\* Total number of colour changes, content changes and content drags in one
\* behaviour.
MaxEdits == 1

\* ------------------------------------------------------------- revisions
\* The application of src/unnamed/part_001 and that of
\* src/portfolio/src/App.tsx.  A behaviour runs one of them from start to end.
SelectionPanelApp == "part_001"
PortfolioApp == "portfolio"
Revisions == {SelectionPanelApp, PortfolioApp}

\* ---------------------------------------------------------- JavaScript values
\* null for Vector3 | null and number[] values
NullPoint == <<>>
\* null for RefObject | null values; the only RefObject<THREE.Group> that
\* exists is the Model component's groupRef
NullRef == "null"
groupRef == "groupRef"
\* null for string | null values
NullUrl == "null"
\* groupRef.current while the <group> is not attached
NoMesh == "none"
\* no intersection recorded
NoHit == [point |-> NullPoint, normal |-> NullPoint]
\* event.target.files?.[0] when no file was chosen
NoFile == "undefined"
\* null for string | null values of contentRef.current
NullContent == "null"
\* an optional string argument left out
NoContent == "undefined"

\* URL.createObjectURL(file)
ObjectURL(file) == "blob:" \o file

DefaultAssetUrl == "/tshirt.glb"
ModelFiles == {"a.glb"}
ImageFiles == {"pic.png"}

\* THREE.Vector3 arithmetic on <<x, y, z>>
VAdd(p, q) == <<p[1] + q[1], p[2] + q[2], p[3] + q[3]>>
VScale(n, k) == <<n[1] * k, n[2] * k, n[3] * k>>

\* ------------------------------------------------------------ the scene
\* Pointer rays of the model: the pointer position together with the camera.
Rays == {"miss", "front"}

\* raycaster.intersectObject(mesh, true): the hits of a ray on a loaded
\* asset, nearest first.  Normals are unit vectors.
intersectObject(mesh, ray) ==
    IF mesh = DefaultAssetUrl /\ ray = "front"
    THEN << [point |-> <<100, 200, 300>>, normal |-> <<0, 0, 1>>],
            [point |-> <<100, 200, -300>>, normal |-> <<0, 0, -1>>] >>
    ELSE IF mesh = ObjectURL("a.glb") /\ ray = "front"
    THEN << [point |-> <<0, 100, 100>>, normal |-> <<0, 0, 1>>] >>
    ELSE << >>

\* ------------------------------------------------------------------ state
VARIABLES
    revision,            \* which revision of the application is running
    effectRun,           \* the mount effect of App has run
    modelUrlRef,         \* App state modelUrlRef
    modelLoaded,         \* App state modelLoaded
    groupRefCurrent,     \* groupRef.current of Model: the asset under the group
    annotations,         \* annotationsRef.current, the Annotation Store
    showSelectionPanel,  \* App state showSelectionPanel
    pendingPoint,        \* App state pendingPoint
    pendingModelRef,     \* App state pendingModelRef
    views,               \* the mounted Annotation components, by key = index
    modelColor,          \* App state modelColor
    loadFailed,          \* useGLTF threw a load error: the React tree is unmounted
    edits,               \* history: colour changes, content changes and content drags
    finalizeCount,       \* history: finalize actions that appended a record
    lastPick,            \* history: the hit of the pick that is pending
    overwrote,           \* history: that pick replaced a pending pick at another point
    last                 \* history: the last handler, its index and whether it acted

vars == << revision, effectRun, modelUrlRef, modelLoaded, groupRefCurrent, annotations,
           showSelectionPanel, pendingPoint, pendingModelRef, views,
           modelColor, loadFailed, edits,
           finalizeCount, lastPick, overwrote, last >>

\* The history record of a handler run: its name, the store index it was
\* called for (0 when it takes none), whether it passed its guards and, for
\* the handlers that take one, the content string it was given.
Ran(op, index, acted) ==
    [ op |-> op, index |-> index, acted |-> acted, arg |-> NoContent ]

\* modelRef.current of a stored RefObject
Current(ref) == IF ref = groupRef THEN groupRefCurrent ELSE NoMesh

\* ------------------------------------------------- the Annotation component
offsetDistance == 5
contentOffset == 500

\* new Float32Array(6): the two endpoints of the connector line
NoLine == << <<0, 0, 0>>, <<0, 0, 0>> >>

\* The matrix of a DragControls wrapper group that was never dragged.
NoDrag == <<0, 0, 0>>

\* First render of an Annotation: useState / useRef initialisers, the props
\* of the first commit and the refs the commit attaches.  contentMeshPosition
\* is the Billboard group's position, contentDrag the translation of the
\* DragControls group around it.
MountAnnotation(a) ==
    [ pivotPosition |-> a.positionRef,
      positionProp |-> a.positionRef,
      isImage |-> a.isImage,
      isEditing |-> FALSE,
      content |-> a.contentRef,
      contentPositionRef |-> << a.positionRef[1] + contentOffset,
                                a.positionRef[2],
                                a.positionRef[3] + contentOffset >>,
      contentMeshPosition |-> << a.positionRef[1] + contentOffset,
                                 a.positionRef[2],
                                 a.positionRef[3] + contentOffset >>,
      contentDrag |-> NoDrag,
      pivotRef |-> TRUE,
      contentMeshRef |-> TRUE,
      lineRef |-> TRUE,
      positions |-> NoLine ]

\* Re-render of a mounted Annotation: hook state is kept, the isImage prop is
\* the record's, the position props are applied to the pivot mesh and to the
\* Billboard when they changed.
RenderAnnotation(v, a) ==
    [ v EXCEPT !.pivotPosition =
                   IF a.positionRef # v.positionProp THEN a.positionRef ELSE @,
               !.positionProp = a.positionRef,
               !.isImage = a.isImage,
               !.contentMeshPosition = v.contentPositionRef ]

\* annotationsRef.current.map(... key={index} ...)
Render(annots, vs) ==
    [ i \in 1..Len(annots) |->
        IF i <= Len(vs) THEN RenderAnnotation(vs[i], annots[i])
                        ELSE MountAnnotation(annots[i]) ]

\* Variant of Splice1: removes the last element whatever the index (pop).
Splice1Pop(s, index) ==
    IF index >= 0 /\ index < Len(s) THEN SubSeq(s, 1, Len(s) - 1) ELSE s

\* array.splice(index, 1)
Splice1(s, index) ==
    IF index >= 0 /\ index < Len(s)
    THEN SubSeq(s, 1, index) \o SubSeq(s, index + 2, Len(s))
    ELSE s

\* ------------------------------------------------------------------- Init
\* useState<string>("cyan") in part_001, useState<string>("#ffffff") in the
\* portfolio revision
InitialColor(rev) == IF rev = SelectionPanelApp THEN "cyan" ELSE "#ffffff"

Init ==
    /\ revision \in Revisions
    /\ effectRun = FALSE
    /\ modelUrlRef = NullUrl
    /\ modelLoaded = FALSE
    /\ groupRefCurrent = NoMesh
    /\ annotations = << >>
    /\ showSelectionPanel = FALSE
    /\ pendingPoint = NullPoint
    /\ pendingModelRef = NullRef
    /\ views = << >>
    /\ finalizeCount = 0
    /\ lastPick = NoHit
    /\ overwrote = FALSE
    /\ modelColor = InitialColor(revision)
    /\ loadFailed = FALSE
    /\ edits = 0
    /\ last = Ran("init", 0, FALSE)

\* ----------------------------------------------------------- model loading
\* useEffect(() => { setModelUrlRef("/tshirt.glb"); setModelLoaded(true) }, [])
DefaultAsset ==
    /\ ~loadFailed
    /\ ~effectRun
    /\ effectRun' = TRUE
    /\ modelUrlRef' = DefaultAssetUrl
    /\ modelLoaded' = TRUE
    /\ last' = Ran("DefaultAsset", 0, TRUE)
    /\ UNCHANGED << revision, modelColor, loadFailed, edits >>
    /\ UNCHANGED << groupRefCurrent, annotations, showSelectionPanel,
                    pendingPoint, pendingModelRef, views, finalizeCount, lastPick, overwrote >>

\* Variant of handleFileUpload: selecting a model file empties the store.
handleFileUploadClearing(file) ==
    /\ ~loadFailed
    /\ revision = SelectionPanelApp
    /\ effectRun
    /\ IF file # NoFile
       THEN /\ modelUrlRef' = ObjectURL(file)
            /\ modelLoaded' = TRUE
            /\ groupRefCurrent' = NoMesh
            /\ annotations' = << >>
            /\ views' = << >>
       ELSE UNCHANGED << modelUrlRef, modelLoaded, groupRefCurrent, annotations, views >>
    /\ last' = Ran("handleFileUpload", 0, file # NoFile)
    /\ UNCHANGED << revision, modelColor, loadFailed, edits >>
    /\ UNCHANGED << effectRun, showSelectionPanel, pendingPoint,
                    pendingModelRef, finalizeCount, lastPick, overwrote >>

\* Variant of handleFileUpload: the selected asset is displayed at once,
\* without waiting for the loader.
handleFileUploadReadyAtOnce(file) ==
    /\ ~loadFailed
    /\ revision = SelectionPanelApp
    /\ effectRun
    /\ IF file # NoFile
       THEN /\ modelUrlRef' = ObjectURL(file)
            /\ modelLoaded' = TRUE
            /\ groupRefCurrent' = ObjectURL(file)
            /\ views' = Render(annotations, views)
       ELSE UNCHANGED << modelUrlRef, modelLoaded, groupRefCurrent, views >>
    /\ last' = Ran("handleFileUpload", 0, file # NoFile)
    /\ UNCHANGED << revision, modelColor, loadFailed, edits >>
    /\ UNCHANGED << effectRun, annotations, showSelectionPanel, pendingPoint,
                    pendingModelRef, finalizeCount, lastPick, overwrote >>

\* handleFileUpload: a new URL makes Model suspend in useGLTF, which detaches
\* the group until the asset is available.
handleFileUpload(file) ==
    /\ ~loadFailed
    /\ revision = SelectionPanelApp
    /\ effectRun
    /\ IF file # NoFile
       THEN /\ modelUrlRef' = ObjectURL(file)
            /\ modelLoaded' = TRUE
            /\ groupRefCurrent' = NoMesh
            /\ views' = Render(annotations, views)
       ELSE UNCHANGED << modelUrlRef, modelLoaded, groupRefCurrent, views >>
    /\ last' = Ran("handleFileUpload", 0, file # NoFile)
    /\ UNCHANGED << revision, modelColor, loadFailed, edits >>
    /\ UNCHANGED << effectRun, annotations, showSelectionPanel, pendingPoint,
                    pendingModelRef, finalizeCount, lastPick, overwrote >>

\* useGLTF(url) resolves: Model renders the <group ref={groupRef}> around the
\* loaded scene.
LoadComplete ==
    /\ ~loadFailed
    /\ modelLoaded
    /\ modelUrlRef # NullUrl
    /\ groupRefCurrent = NoMesh
    /\ groupRefCurrent' = modelUrlRef
    /\ last' = Ran("LoadComplete", 0, TRUE)
    /\ UNCHANGED << revision, modelColor, loadFailed, edits >>
    /\ UNCHANGED << effectRun, modelUrlRef, modelLoaded, annotations,
                    showSelectionPanel, pendingPoint, pendingModelRef, views,
                    finalizeCount, lastPick, overwrote >>

\* useGLTF(url) rejects: the error is thrown while Model renders and no error
\* boundary catches it, so the React tree is unmounted and no handler runs
\* any more.  modelLoaded is left as it was set when the asset was selected.
LoadFail ==
    /\ ~loadFailed
    /\ modelLoaded
    /\ modelUrlRef # NullUrl
    /\ groupRefCurrent = NoMesh
    /\ loadFailed' = TRUE
    /\ last' = Ran("LoadFail", 0, TRUE)
    /\ UNCHANGED << revision, modelColor, edits >>
    /\ UNCHANGED << effectRun, modelUrlRef, modelLoaded, groupRefCurrent,
                    annotations, showSelectionPanel, pendingPoint,
                    pendingModelRef, views, finalizeCount, lastPick, overwrote >>

\* Values of the colour input.
ColorInputs == {"cyan", "#ffffff", "#ff0000"}

\* handleColorChange: setModelColor(event.target.value); Model's effect
\* recolours the materials of the displayed scene.
handleColorChange(color) ==
    /\ ~loadFailed
    /\ revision = SelectionPanelApp
    /\ color # modelColor
    /\ edits < MaxEdits
    /\ modelColor' = color
    /\ views' = Render(annotations, views)
    /\ edits' = edits + 1
    /\ last' = Ran("handleColorChange", 0, TRUE)
    /\ UNCHANGED << revision, loadFailed >>
    /\ UNCHANGED << effectRun, modelUrlRef, modelLoaded, groupRefCurrent,
                    annotations, showSelectionPanel, pendingPoint,
                    pendingModelRef, finalizeCount, lastPick, overwrote >>

\* ------------------------------------------------------- Session Controller
\* Variant of handleModelClick: a pick made while one is pending is dropped
\* (first pick wins).
handleModelClickKeepFirst(ray) ==
    /\ ~loadFailed
    /\ revision = SelectionPanelApp
    /\ groupRefCurrent # NoMesh
    /\ finalizeCount < MaxRecords
    /\ LET intersects == intersectObject(groupRefCurrent, ray) IN
        /\ Len(intersects) > 0
        /\ pendingPoint' = IF showSelectionPanel /\ pendingPoint # NullPoint
                           THEN pendingPoint ELSE intersects[1].point
        /\ lastPick' = intersects[1]
        /\ overwrote' = (showSelectionPanel /\ pendingPoint # NullPoint
                           /\ pendingPoint # intersects[1].point)
    /\ pendingModelRef' = groupRef
    /\ showSelectionPanel' = TRUE
    /\ views' = Render(annotations, views)
    /\ last' = Ran("handleModelClick", 0, TRUE)
    /\ UNCHANGED << revision, modelColor, loadFailed, edits >>
    /\ UNCHANGED << effectRun, modelUrlRef, modelLoaded, groupRefCurrent,
                    annotations, finalizeCount >>

\* Model's onDoubleClick -> handleModelClick(e.point, groupRef); e.point is the
\* nearest hit of the pointer ray on the displayed scene.
handleModelClick(ray) ==
    /\ ~loadFailed
    /\ revision = SelectionPanelApp
    /\ groupRefCurrent # NoMesh
    /\ finalizeCount < MaxRecords
    /\ LET intersects == intersectObject(groupRefCurrent, ray) IN
        /\ Len(intersects) > 0
        /\ pendingPoint' = intersects[1].point
        /\ lastPick' = intersects[1]
        /\ overwrote' = (showSelectionPanel /\ pendingPoint # NullPoint
                           /\ pendingPoint # intersects[1].point)
    /\ pendingModelRef' = groupRef
    /\ showSelectionPanel' = TRUE
    /\ views' = Render(annotations, views)
    /\ last' = Ran("handleModelClick", 0, TRUE)
    /\ UNCHANGED << revision, modelColor, loadFailed, edits >>
    /\ UNCHANGED << effectRun, modelUrlRef, modelLoaded, groupRefCurrent,
                    annotations, finalizeCount >>

\* Variant of TextRecord: the placeholder text is left out.
TextRecordNoPlaceholder(point, ref) ==
    [ positionRef |-> point, contentRef |-> "",
      modelRef |-> ref, isImage |-> FALSE ]

\* The record handleTextSelection pushes.
TextRecord(point, ref) ==
    [ positionRef |-> point, contentRef |-> "Annotation",
      modelRef |-> ref, isImage |-> FALSE ]

\* Variant of handleTextSelection: the panel stays open after the record is
\* added.
handleTextSelectionKeepPanel ==
    /\ ~loadFailed
    /\ revision = SelectionPanelApp
    /\ showSelectionPanel
    /\ IF pendingPoint = NullPoint \/ pendingModelRef = NullRef
       THEN UNCHANGED << annotations, showSelectionPanel, pendingPoint,
                         pendingModelRef, views, finalizeCount, lastPick, overwrote >>
       ELSE /\ annotations' =
                   Append(annotations, TextRecord(pendingPoint, pendingModelRef))
            /\ UNCHANGED showSelectionPanel
            /\ pendingPoint' = NullPoint
            /\ pendingModelRef' = NullRef
            /\ views' = Render(annotations', views)
            /\ finalizeCount' = finalizeCount + 1
            /\ lastPick' = NoHit
            /\ UNCHANGED overwrote
    /\ last' = Ran("handleTextSelection", 0,
                pendingPoint # NullPoint /\ pendingModelRef # NullRef)
    /\ UNCHANGED << revision, modelColor, loadFailed, edits >>
    /\ UNCHANGED << effectRun, modelUrlRef, modelLoaded, groupRefCurrent >>

\* Variant of handleTextSelection: the record is put at the front of the
\* store (unshift).
handleTextSelectionUnshift ==
    /\ ~loadFailed
    /\ revision = SelectionPanelApp
    /\ showSelectionPanel
    /\ IF pendingPoint = NullPoint \/ pendingModelRef = NullRef
       THEN UNCHANGED << annotations, showSelectionPanel, pendingPoint,
                         pendingModelRef, views, finalizeCount, lastPick, overwrote >>
       ELSE /\ annotations' =
                   << TextRecord(pendingPoint, pendingModelRef) >> \o annotations
            /\ showSelectionPanel' = FALSE
            /\ pendingPoint' = NullPoint
            /\ pendingModelRef' = NullRef
            /\ views' = Render(annotations', views)
            /\ finalizeCount' = finalizeCount + 1
            /\ lastPick' = NoHit
            /\ UNCHANGED overwrote
    /\ last' = Ran("handleTextSelection", 0,
                pendingPoint # NullPoint /\ pendingModelRef # NullRef)
    /\ UNCHANGED << revision, modelColor, loadFailed, edits >>
    /\ UNCHANGED << effectRun, modelUrlRef, modelLoaded, groupRefCurrent >>

\* "Add Text" button of the selection panel.
handleTextSelection ==
    /\ ~loadFailed
    /\ revision = SelectionPanelApp
    /\ showSelectionPanel
    /\ IF pendingPoint = NullPoint \/ pendingModelRef = NullRef
       THEN UNCHANGED << annotations, showSelectionPanel, pendingPoint,
                         pendingModelRef, views, finalizeCount, lastPick, overwrote >>
       ELSE /\ annotations' =
                   Append(annotations, TextRecord(pendingPoint, pendingModelRef))
            /\ showSelectionPanel' = FALSE
            /\ pendingPoint' = NullPoint
            /\ pendingModelRef' = NullRef
            /\ views' = Render(annotations', views)
            /\ finalizeCount' = finalizeCount + 1
            /\ lastPick' = NoHit
            /\ UNCHANGED overwrote
    /\ last' = Ran("handleTextSelection", 0,
                pendingPoint # NullPoint /\ pendingModelRef # NullRef)
    /\ UNCHANGED << revision, modelColor, loadFailed, edits >>
    /\ UNCHANGED << effectRun, modelUrlRef, modelLoaded, groupRefCurrent >>

\* Variant of ImageRecord: the record is not marked as an image.
ImageRecordAsText(point, ref, url) ==
    [ positionRef |-> point, contentRef |-> url,
      modelRef |-> ref, isImage |-> FALSE ]

\* The record handleImageUpload pushes.
ImageRecord(point, ref, url) ==
    [ positionRef |-> point, contentRef |-> url,
      modelRef |-> ref, isImage |-> TRUE ]

\* Variant of handleImageUpload: without a file the pending pick is dropped and
\* the panel closed.
handleImageUploadDiscarding(file) ==
    /\ ~loadFailed
    /\ revision = SelectionPanelApp
    /\ showSelectionPanel
    /\ IF file # NoFile /\ pendingModelRef # NullRef /\ pendingPoint # NullPoint
       THEN /\ annotations' =
                   Append(annotations,
                          ImageRecord(pendingPoint, pendingModelRef, ObjectURL(file)))
            /\ views' = Render(annotations', views)
            /\ finalizeCount' = finalizeCount + 1
            /\ lastPick' = NoHit
       ELSE UNCHANGED << annotations, views, finalizeCount, lastPick >>
    /\ UNCHANGED overwrote
    /\ showSelectionPanel' = FALSE
    /\ pendingPoint' = NullPoint
    /\ pendingModelRef' = NullRef
    /\ last' = Ran("handleImageUpload", 0,
                file # NoFile /\ pendingModelRef # NullRef /\ pendingPoint # NullPoint)
    /\ UNCHANGED << revision, modelColor, loadFailed, edits >>
    /\ UNCHANGED << effectRun, modelUrlRef, modelLoaded, groupRefCurrent >>

\* "Add Image" file input of the selection panel.
handleImageUpload(file) ==
    /\ ~loadFailed
    /\ revision = SelectionPanelApp
    /\ showSelectionPanel
    /\ IF file # NoFile /\ pendingModelRef # NullRef /\ pendingPoint # NullPoint
       THEN /\ annotations' =
                   Append(annotations,
                          ImageRecord(pendingPoint, pendingModelRef, ObjectURL(file)))
            /\ showSelectionPanel' = FALSE
            /\ pendingPoint' = NullPoint
            /\ pendingModelRef' = NullRef
            /\ views' = Render(annotations', views)
            /\ finalizeCount' = finalizeCount + 1
            /\ lastPick' = NoHit
            /\ UNCHANGED overwrote
       ELSE UNCHANGED << annotations, showSelectionPanel, pendingPoint,
                         pendingModelRef, views, finalizeCount, lastPick, overwrote >>
    /\ last' = Ran("handleImageUpload", 0,
                file # NoFile /\ pendingModelRef # NullRef /\ pendingPoint # NullPoint)
    /\ UNCHANGED << revision, modelColor, loadFailed, edits >>
    /\ UNCHANGED << effectRun, modelUrlRef, modelLoaded, groupRefCurrent >>

\* "Cancel" button of the selection panel: onClick={() => setShowSelectionPanel(false)}
CancelSelection ==
    /\ ~loadFailed
    /\ revision = SelectionPanelApp
    /\ showSelectionPanel
    /\ showSelectionPanel' = FALSE
    /\ views' = Render(annotations, views)
    /\ last' = Ran("CancelSelection", 0, TRUE)
    /\ UNCHANGED << revision, modelColor, loadFailed, edits >>
    /\ UNCHANGED << effectRun, modelUrlRef, modelLoaded, groupRefCurrent,
                    annotations, pendingPoint, pendingModelRef, finalizeCount, lastPick, overwrote >>

\* ---------------------------------------------------------- Annotation Store
\* "Delete" of the Annotation rendered at index: onDelete={() => handleDelete(index)}
handleDelete(index) ==
    /\ ~loadFailed
    /\ revision = SelectionPanelApp
    /\ index \in 0..(Len(views) - 1)
    /\ views[index + 1].isImage \/ ~views[index + 1].isEditing
    /\ annotations' = Splice1(annotations, index)
    /\ views' = Render(annotations', views)
    /\ last' = Ran("handleDelete", index, TRUE)
    /\ UNCHANGED << revision, modelColor, loadFailed, edits >>
    /\ UNCHANGED << effectRun, modelUrlRef, modelLoaded, groupRefCurrent,
                    showSelectionPanel, pendingPoint, pendingModelRef,
                    finalizeCount, lastPick, overwrote >>

\* Variant of setIsEditing: entering edit mode closes the edit mode of every
\* other annotation.
setIsEditingExclusive(index, value) ==
    /\ ~loadFailed
    /\ revision = SelectionPanelApp
    /\ index \in 0..(Len(views) - 1)
    /\ ~views[index + 1].isImage
    /\ views[index + 1].isEditing # value
    /\ views' = [ i \in 1..Len(views) |->
                    [ views[i] EXCEPT !.isEditing = (i = index + 1 /\ value) ] ]
    /\ last' = Ran("setIsEditing", index, TRUE)
    /\ UNCHANGED << revision, modelColor, loadFailed, edits >>
    /\ UNCHANGED << effectRun, modelUrlRef, modelLoaded, groupRefCurrent,
                    annotations, showSelectionPanel, pendingPoint,
                    pendingModelRef, finalizeCount, lastPick, overwrote >>

\* "Edit" / "Close" of the text Annotation rendered at index: setIsEditing.
setIsEditing(index, value) ==
    /\ ~loadFailed
    /\ revision = SelectionPanelApp
    /\ index \in 0..(Len(views) - 1)
    /\ ~views[index + 1].isImage
    /\ views[index + 1].isEditing # value
    /\ views' = [ views EXCEPT ![index + 1].isEditing = value ]
    /\ last' = Ran("setIsEditing", index, TRUE)
    /\ UNCHANGED << revision, modelColor, loadFailed, edits >>
    /\ UNCHANGED << effectRun, modelUrlRef, modelLoaded, groupRefCurrent,
                    annotations, showSelectionPanel, pendingPoint,
                    pendingModelRef, finalizeCount, lastPick, overwrote >>

\* ----------------------------------------------------------- Drag Controller
\* The anchor position handlePivotDrag computes from the nearest hit.
PivotNewPosition(intersection) ==
    VAdd(intersection.point, VScale(intersection.normal, offsetDistance))

\* Variant of handlePivotDrag: a miss moves the anchor to the origin.
handlePivotDragResetOnMiss(index, ray) ==
    /\ ~loadFailed
    /\ revision = SelectionPanelApp
    /\ index \in 0..(Len(views) - 1)
    /\ LET a == annotations[index + 1]
           mesh == Current(a.modelRef)
           intersects == intersectObject(mesh, ray)
           newPosition == IF ~views[index + 1].pivotRef \/ mesh = NoMesh
                             \/ Len(intersects) = 0
                          THEN <<0, 0, 0>>
                          ELSE PivotNewPosition(intersects[1])
       IN  /\ views' = [ views EXCEPT ![index + 1].pivotPosition = newPosition ]
           /\ annotations' = [ annotations EXCEPT ![index + 1].positionRef =
                                   newPosition ]
    /\ last' = Ran("handlePivotDrag", index,
                /\ views[index + 1].pivotRef
                /\ Len(intersectObject(Current(annotations[index + 1].modelRef), ray)) > 0)
    /\ UNCHANGED << revision, modelColor, loadFailed, edits >>
    /\ UNCHANGED << effectRun, modelUrlRef, modelLoaded, groupRefCurrent,
                    showSelectionPanel, pendingPoint, pendingModelRef,
                    finalizeCount, lastPick, overwrote >>

\* Variant of handlePivotDrag: the content panel follows the anchor.
handlePivotDragMovingContent(index, ray) ==
    /\ ~loadFailed
    /\ revision = SelectionPanelApp
    /\ index \in 0..(Len(views) - 1)
    /\ LET a == annotations[index + 1]
           mesh == Current(a.modelRef)
           intersects == intersectObject(mesh, ray)
       IN  IF ~views[index + 1].pivotRef \/ mesh = NoMesh \/ Len(intersects) = 0
           THEN UNCHANGED << annotations, views >>
           ELSE /\ views' = [ views EXCEPT
                                  ![index + 1].pivotPosition =
                                      PivotNewPosition(intersects[1]),
                                  ![index + 1].contentPositionRef =
                                      VAdd(PivotNewPosition(intersects[1]),
                                           <<contentOffset, 0, contentOffset>>) ]
                /\ annotations' = [ annotations EXCEPT ![index + 1].positionRef =
                                        PivotNewPosition(intersects[1]) ]
    /\ last' = Ran("handlePivotDrag", index,
                /\ views[index + 1].pivotRef
                /\ Len(intersectObject(Current(annotations[index + 1].modelRef), ray)) > 0)
    /\ UNCHANGED << revision, modelColor, loadFailed, edits >>
    /\ UNCHANGED << effectRun, modelUrlRef, modelLoaded, groupRefCurrent,
                    showSelectionPanel, pendingPoint, pendingModelRef,
                    finalizeCount, lastPick, overwrote >>

\* onDrag of the pivot's DragControls, for the Annotation rendered at index.
handlePivotDrag(index, ray) ==
    /\ ~loadFailed
    /\ revision = SelectionPanelApp
    /\ index \in 0..(Len(views) - 1)
    /\ LET a == annotations[index + 1]
           mesh == Current(a.modelRef)
           intersects == intersectObject(mesh, ray)
       IN  IF ~views[index + 1].pivotRef \/ mesh = NoMesh \/ Len(intersects) = 0
           THEN UNCHANGED << annotations, views >>
           ELSE /\ views' = [ views EXCEPT ![index + 1].pivotPosition =
                                  PivotNewPosition(intersects[1]) ]
                /\ annotations' = [ annotations EXCEPT ![index + 1].positionRef =
                                        PivotNewPosition(intersects[1]) ]
    /\ last' = Ran("handlePivotDrag", index,
                /\ views[index + 1].pivotRef
                /\ Len(intersectObject(Current(annotations[index + 1].modelRef), ray)) > 0)
    /\ UNCHANGED << revision, modelColor, loadFailed, edits >>
    /\ UNCHANGED << effectRun, modelUrlRef, modelLoaded, groupRefCurrent,
                    showSelectionPanel, pendingPoint, pendingModelRef,
                    finalizeCount, lastPick, overwrote >>

\* ------------------------------------------------- content of an annotation
\* JavaScript truthiness of an optional string
Truthy(content) == content \notin {NoContent, NullContent, ""}

\* newContent values of handleTypeChange, values typed into the Input
NewContents == {NoContent, "", "img://foo"}
TextInputs == {"", "note"}

\* Variant of TypeChangeContent: the placeholder of a text annotation is left
\* out.
TypeChangeContentNoPlaceholder(isImage, newContent) ==
    IF Truthy(newContent) THEN newContent ELSE NullContent

\* newContent || (isImage ? null : "Annotation")
TypeChangeContent(isImage, newContent) ==
    IF Truthy(newContent) THEN newContent
    ELSE IF isImage THEN NullContent ELSE "Annotation"

\* handleTypeChange(index, isImage, newContent), the onTypeChange of the
\* Annotation rendered at index.  setAnnotationCount gets the length it
\* already holds, so nothing is rendered again.
handleTypeChange(index, isImage, newContent) ==
    /\ ~loadFailed
    /\ revision = SelectionPanelApp
    /\ index \in 0..(Len(views) - 1)
    /\ edits < MaxEdits
    /\ annotations' = [ annotations EXCEPT
                            ![index + 1].isImage = isImage,
                            ![index + 1].contentRef =
                                TypeChangeContent(isImage, newContent) ]
    /\ edits' = edits + 1
    /\ last' = [ Ran("handleTypeChange", index, TRUE) EXCEPT !.arg = newContent ]
    /\ UNCHANGED << revision, modelColor, loadFailed >>
    /\ UNCHANGED << effectRun, modelUrlRef, modelLoaded, groupRefCurrent,
                    showSelectionPanel, pendingPoint, pendingModelRef, views,
                    finalizeCount, lastPick, overwrote >>

\* Variant of handleTextChange: an emptied Input leaves the content null.
handleTextChangeNullOnEmpty(index, value) ==
    /\ ~loadFailed
    /\ revision = SelectionPanelApp
    /\ index \in 0..(Len(views) - 1)
    /\ ~views[index + 1].isImage
    /\ views[index + 1].isEditing
    /\ edits < MaxEdits
    /\ views' = [ views EXCEPT ![index + 1].content = value ]
    /\ annotations' = [ annotations EXCEPT ![index + 1].contentRef =
                            IF value = "" THEN NullContent ELSE value ]
    /\ edits' = edits + 1
    /\ last' = [ Ran("handleTextChange", index, TRUE) EXCEPT !.arg = value ]
    /\ UNCHANGED << revision, modelColor, loadFailed >>
    /\ UNCHANGED << effectRun, modelUrlRef, modelLoaded, groupRefCurrent,
                    showSelectionPanel, pendingPoint, pendingModelRef,
                    finalizeCount, lastPick, overwrote >>

\* onValueChange of the Input shown while the text Annotation rendered at
\* index is edited: setContent(value); contentRef.current = value.
handleTextChange(index, value) ==
    /\ ~loadFailed
    /\ revision = SelectionPanelApp
    /\ index \in 0..(Len(views) - 1)
    /\ ~views[index + 1].isImage
    /\ views[index + 1].isEditing
    /\ edits < MaxEdits
    /\ views' = [ views EXCEPT ![index + 1].content = value ]
    /\ annotations' = [ annotations EXCEPT ![index + 1].contentRef = value ]
    /\ edits' = edits + 1
    /\ last' = [ Ran("handleTextChange", index, TRUE) EXCEPT !.arg = value ]
    /\ UNCHANGED << revision, modelColor, loadFailed >>
    /\ UNCHANGED << effectRun, modelUrlRef, modelLoaded, groupRefCurrent,
                    showSelectionPanel, pendingPoint, pendingModelRef,
                    finalizeCount, lastPick, overwrote >>

\* Translations a drag gesture gives the DragControls group of the content
\* panel.
ContentDrags == { <<0, 20, 0>> }

\* Variant of handleContentDrag: the panel can be dragged while edited.
handleContentDragWhileEditing(index, drag) ==
    /\ ~loadFailed
    /\ revision = SelectionPanelApp
    /\ index \in 0..(Len(views) - 1)
    /\ edits < MaxEdits
    /\ views' = [ views EXCEPT
                      ![index + 1].contentDrag = drag,
                      ![index + 1].contentPositionRef =
                          IF views[index + 1].contentMeshRef
                          THEN views[index + 1].contentMeshPosition ELSE @ ]
    /\ edits' = edits + 1
    /\ last' = Ran("handleContentDrag", index, views[index + 1].contentMeshRef)
    /\ UNCHANGED << revision, modelColor, loadFailed >>
    /\ UNCHANGED << effectRun, modelUrlRef, modelLoaded, groupRefCurrent,
                    annotations, showSelectionPanel, pendingPoint,
                    pendingModelRef, finalizeCount, lastPick, overwrote >>

\* A drag of the content panel of the Annotation rendered at index, enabled
\* while it is not edited: DragControls moves its own group, then calls
\* handleContentDrag, which copies contentMeshRef.current.position.
handleContentDrag(index, drag) ==
    /\ ~loadFailed
    /\ revision = SelectionPanelApp
    /\ index \in 0..(Len(views) - 1)
    /\ ~views[index + 1].isEditing
    /\ edits < MaxEdits
    /\ views' = [ views EXCEPT
                      ![index + 1].contentDrag = drag,
                      ![index + 1].contentPositionRef =
                          IF views[index + 1].contentMeshRef
                          THEN views[index + 1].contentMeshPosition ELSE @ ]
    /\ edits' = edits + 1
    /\ last' = Ran("handleContentDrag", index, views[index + 1].contentMeshRef)
    /\ UNCHANGED << revision, modelColor, loadFailed >>
    /\ UNCHANGED << effectRun, modelUrlRef, modelLoaded, groupRefCurrent,
                    annotations, showSelectionPanel, pendingPoint,
                    pendingModelRef, finalizeCount, lastPick, overwrote >>

\* ------------------------------------------------------------ connector line
\* getWorldPosition of the pivot mesh and of the Billboard group.
PivotWorldPosition(v) == v.pivotPosition
ContentWorldPosition(v) == VAdd(v.contentMeshPosition, v.contentDrag)

\* Variant of useFrame: the line is drawn between the position props, not
\* between the world positions.
useFrameFromProps(v) ==
    IF v.pivotRef /\ v.contentMeshRef /\ v.lineRef
    THEN [ v EXCEPT !.positions = << v.positionProp, v.contentPositionRef >> ]
    ELSE v

\* Variant of useFrame: each endpoint is written as soon as its own object is
\* attached.
useFramePartial(v) ==
    [ v EXCEPT !.positions =
        << IF v.pivotRef /\ v.lineRef THEN PivotWorldPosition(v) ELSE @[1],
           IF v.contentMeshRef /\ v.lineRef THEN ContentWorldPosition(v) ELSE @[2] >> ]

\* The useFrame callback of one Annotation.
useFrame(v) ==
    IF v.pivotRef /\ v.contentMeshRef /\ v.lineRef
    THEN [ v EXCEPT !.positions =
                        << PivotWorldPosition(v), ContentWorldPosition(v) >> ]
    ELSE v

\* One frame of the render loop: the useFrame callbacks of all mounted
\* Annotations run.
Frame ==
    /\ ~loadFailed
    /\ Len(views) > 0
    /\ views' = [ i \in 1..Len(views) |-> useFrame(views[i]) ]
    /\ last' = Ran("useFrame", 0, TRUE)
    /\ UNCHANGED << revision, modelColor, loadFailed, edits >>
    /\ UNCHANGED << effectRun, modelUrlRef, modelLoaded, groupRefCurrent,
                    annotations, showSelectionPanel, pendingPoint,
                    pendingModelRef, finalizeCount, lastPick, overwrote >>

\* ------------------------------------- src/portfolio/src/App.tsx revision
\* This revision has no selection panel, no images and no deletion: records
\* are {positionRef, textRef, modelRef}; they are kept in the same shape here,
\* with textRef in contentRef and isImage FALSE.
portfolioOffset == 1

\* <Billboard position={[positionRef.current[0] + 0.5, positionRef.current[1],
\* positionRef.current[2] + 0.5]}>
portfolioContentOffset == 50
PortfolioBillboardPosition(a) ==
    << a.positionRef[1] + portfolioContentOffset,
       a.positionRef[2],
       a.positionRef[3] + portfolioContentOffset >>

\* First render of this revision's Annotation; it has no contentPositionRef.
PortfolioMountAnnotation(a) ==
    [ pivotPosition |-> a.positionRef,
      positionProp |-> a.positionRef,
      isImage |-> FALSE,
      isEditing |-> FALSE,
      content |-> a.contentRef,
      contentPositionRef |-> NullPoint,
      contentMeshPosition |-> PortfolioBillboardPosition(a),
      contentDrag |-> NoDrag,
      pivotRef |-> TRUE,
      contentMeshRef |-> TRUE,
      lineRef |-> TRUE,
      positions |-> NoLine ]

\* Re-render of this revision's Annotation: both position props follow
\* positionRef.current.
PortfolioRenderAnnotation(v, a) ==
    [ v EXCEPT !.pivotPosition =
                   IF a.positionRef # v.positionProp THEN a.positionRef ELSE @,
               !.positionProp = a.positionRef,
               !.contentMeshPosition =
                   IF a.positionRef # v.positionProp
                   THEN PortfolioBillboardPosition(a) ELSE @ ]

PortfolioRender(annots, vs) ==
    [ i \in 1..Len(annots) |->
        IF i <= Len(vs) THEN PortfolioRenderAnnotation(vs[i], annots[i])
                        ELSE PortfolioMountAnnotation(annots[i]) ]

\* handleFileUpload of this revision (same code, this revision's render).
PortfolioHandleFileUpload(file) ==
    /\ ~loadFailed
    /\ revision = PortfolioApp
    /\ effectRun
    /\ IF file # NoFile
       THEN /\ modelUrlRef' = ObjectURL(file)
            /\ modelLoaded' = TRUE
            /\ groupRefCurrent' = NoMesh
            /\ views' = PortfolioRender(annotations, views)
       ELSE UNCHANGED << modelUrlRef, modelLoaded, groupRefCurrent, views >>
    /\ last' = Ran("PortfolioHandleFileUpload", 0, file # NoFile)
    /\ UNCHANGED << revision, modelColor, loadFailed, edits >>
    /\ UNCHANGED << effectRun, annotations, showSelectionPanel, pendingPoint,
                    pendingModelRef, finalizeCount, lastPick, overwrote >>

\* handleColorChange of this revision (same code, this revision's render).
PortfolioHandleColorChange(color) ==
    /\ ~loadFailed
    /\ revision = PortfolioApp
    /\ color # modelColor
    /\ edits < MaxEdits
    /\ modelColor' = color
    /\ views' = PortfolioRender(annotations, views)
    /\ edits' = edits + 1
    /\ last' = Ran("PortfolioHandleColorChange", 0, TRUE)
    /\ UNCHANGED << revision, loadFailed >>
    /\ UNCHANGED << effectRun, modelUrlRef, modelLoaded, groupRefCurrent,
                    annotations, showSelectionPanel, pendingPoint,
                    pendingModelRef, finalizeCount, lastPick, overwrote >>

\* handleModelClick of this revision: the pick itself pushes the record.
PortfolioHandleModelClick(ray) ==
    /\ ~loadFailed
    /\ revision = PortfolioApp
    /\ groupRefCurrent # NoMesh
    /\ Len(annotations) < MaxRecords
    /\ LET intersects == intersectObject(groupRefCurrent, ray) IN
        /\ Len(intersects) > 0
        /\ annotations' =
               Append(annotations, TextRecord(intersects[1].point, groupRef))
    /\ views' = PortfolioRender(annotations', views)
    /\ last' = Ran("PortfolioHandleModelClick", 0, TRUE)
    /\ UNCHANGED << revision, modelColor, loadFailed, edits >>
    /\ UNCHANGED << effectRun, modelUrlRef, modelLoaded, groupRefCurrent,
                    showSelectionPanel, pendingPoint, pendingModelRef,
                    finalizeCount, lastPick, overwrote >>

\* handleDrag of this revision: the pivot mesh is moved to the offset point,
\* positionRef gets the intersection point itself.
PortfolioHandleDrag(index, ray) ==
    /\ ~loadFailed
    /\ revision = PortfolioApp
    /\ index \in 0..(Len(views) - 1)
    /\ LET a == annotations[index + 1]
           mesh == Current(a.modelRef)
           intersects == intersectObject(mesh, ray)
       IN  IF ~views[index + 1].pivotRef \/ mesh = NoMesh \/ Len(intersects) = 0
           THEN UNCHANGED << annotations, views >>
           ELSE /\ views' = [ views EXCEPT ![index + 1].pivotPosition =
                                  VAdd(intersects[1].point,
                                       VScale(intersects[1].normal, portfolioOffset)) ]
                /\ annotations' = [ annotations EXCEPT ![index + 1].positionRef =
                                        intersects[1].point ]
    /\ last' = Ran("PortfolioHandleDrag", index,
                /\ views[index + 1].pivotRef
                /\ Len(intersectObject(Current(annotations[index + 1].modelRef), ray)) > 0)
    /\ UNCHANGED << revision, modelColor, loadFailed, edits >>
    /\ UNCHANGED << effectRun, modelUrlRef, modelLoaded, groupRefCurrent,
                    showSelectionPanel, pendingPoint, pendingModelRef,
                    finalizeCount, lastPick, overwrote >>

\* ------------------------------------------------------------ specification
Next ==
    \/ DefaultAsset
    \/ LoadComplete
    \/ LoadFail
    \/ \E file \in ModelFiles \cup {NoFile} : handleFileUpload(file)
    \/ \E ray \in Rays : handleModelClick(ray)
    \/ handleTextSelection
    \/ \E file \in ImageFiles \cup {NoFile} : handleImageUpload(file)
    \/ CancelSelection
    \/ \E index \in 0..(MaxRecords - 1) : handleDelete(index)
    \/ \E index \in 0..(MaxRecords - 1), ray \in Rays : handlePivotDrag(index, ray)
    \/ \E index \in 0..(MaxRecords - 1), value \in BOOLEAN : setIsEditing(index, value)
    \/ \E file \in ModelFiles \cup {NoFile} : PortfolioHandleFileUpload(file)
    \/ \E ray \in Rays : PortfolioHandleModelClick(ray)
    \/ \E index \in 0..(MaxRecords - 1), ray \in Rays : PortfolioHandleDrag(index, ray)

Spec == Init /\ [][Next]_vars

\* The handlers of Next together with the colour input and the handlers that
\* change an annotation's content or move its content panel.
NextContent ==
    \/ Next
    \/ \E color \in ColorInputs : handleColorChange(color)
    \/ \E color \in ColorInputs : PortfolioHandleColorChange(color)
    \/ \E index \in 0..(MaxRecords - 1), isImage \in BOOLEAN, newContent \in NewContents :
           handleTypeChange(index, isImage, newContent)
    \/ \E index \in 0..(MaxRecords - 1), value \in TextInputs :
           handleTextChange(index, value)
    \/ \E index \in 0..(MaxRecords - 1), drag \in ContentDrags :
           handleContentDrag(index, drag)

SpecContent == Init /\ [][NextContent]_vars

\* ------------------------------------------------ the useFrame callback alone
\* The callback reads three refs whose .current is an object or null.  React
\* attaches them in the commit that subscribes the callback, so under Spec
\* and SpecContent they are attached in every mounted Annotation.  To cover
\* all the values the callback's inputs can take, InitFrame starts from
\* a scene with the default asset loaded and one to MaxRecords text
\* annotations at the same pick, each ref attached or null; the drag
\* handlers and the frames then run on it.
PickedPoint == intersectObject(DefaultAssetUrl, "front")[1].point

FrameViews(rev) ==
    LET a == TextRecord(PickedPoint, groupRef)
        v == IF rev = SelectionPanelApp THEN MountAnnotation(a)
                                        ELSE PortfolioMountAnnotation(a)
    IN  { [ v EXCEPT !.pivotRef = pivot, !.contentMeshRef = content, !.lineRef = line ] :
            pivot \in BOOLEAN, content \in BOOLEAN, line \in BOOLEAN }

InitFrame ==
    /\ revision \in Revisions
    /\ effectRun = TRUE
    /\ modelUrlRef = DefaultAssetUrl
    /\ modelLoaded = TRUE
    /\ groupRefCurrent = DefaultAssetUrl
    /\ \E n \in 1..MaxRecords :
          /\ annotations = [ i \in 1..n |-> TextRecord(PickedPoint, groupRef) ]
          /\ views \in [ 1..n -> FrameViews(revision) ]
          /\ finalizeCount = IF revision = SelectionPanelApp THEN n ELSE 0
    /\ showSelectionPanel = FALSE
    /\ pendingPoint = NullPoint
    /\ pendingModelRef = NullRef
    /\ lastPick = NoHit
    /\ overwrote = FALSE
    /\ modelColor = InitialColor(revision)
    /\ loadFailed = FALSE
    /\ edits = 0
    /\ last = Ran("init", 0, FALSE)

NextFrame ==
    \/ Frame
    \/ \E index \in 0..(MaxRecords - 1), ray \in Rays : handlePivotDrag(index, ray)
    \/ \E index \in 0..(MaxRecords - 1), drag \in ContentDrags :
           handleContentDrag(index, drag)
    \/ \E index \in 0..(MaxRecords - 1), ray \in Rays : PortfolioHandleDrag(index, ray)

SpecFrame == InitFrame /\ [][NextFrame]_vars

\* ------------------------------------------------- a scene of annotations
\* The handlers of a mounted Annotation run on a scene of up to MaxScene
\* annotations: the default asset is loaded and every annotation was added by
\* a pick at the same point, as text or with an uploaded image (text only in
\* the portfolio revision); every view is as mounted.
MaxScene == 3

SceneRecords(rev) ==
    {TextRecord(PickedPoint, groupRef)} \cup
    (IF rev = SelectionPanelApp
     THEN { ImageRecord(PickedPoint, groupRef, ObjectURL(f)) : f \in ImageFiles }
     ELSE {})

\* "Edit" / "Close" of the portfolio revision's Annotation: setIsEditing.
PortfolioSetIsEditing(index, value) ==
    /\ ~loadFailed
    /\ revision = PortfolioApp
    /\ index \in 0..(Len(views) - 1)
    /\ views[index + 1].isEditing # value
    /\ views' = [ views EXCEPT ![index + 1].isEditing = value ]
    /\ last' = Ran("PortfolioSetIsEditing", index, TRUE)
    /\ UNCHANGED << revision, modelColor, loadFailed, edits >>
    /\ UNCHANGED << effectRun, modelUrlRef, modelLoaded, groupRefCurrent,
                    annotations, showSelectionPanel, pendingPoint,
                    pendingModelRef, finalizeCount, lastPick, overwrote >>

\* Variant of PortfolioContentDrag: the panel can be dragged while edited.
PortfolioContentDragAlways(index, drag) ==
    /\ ~loadFailed
    /\ revision = PortfolioApp
    /\ index \in 0..(Len(views) - 1)
    /\ edits < MaxEdits
    /\ views' = [ views EXCEPT ![index + 1].contentDrag = drag ]
    /\ edits' = edits + 1
    /\ last' = Ran("PortfolioContentDrag", index, TRUE)
    /\ UNCHANGED << revision, modelColor, loadFailed >>
    /\ UNCHANGED << effectRun, modelUrlRef, modelLoaded, groupRefCurrent,
                    annotations, showSelectionPanel, pendingPoint,
                    pendingModelRef, finalizeCount, lastPick, overwrote >>

\* A drag of the portfolio revision's content panel: DragControls with
\* dragConfig={{ enabled: !isEditing }} and no onDrag moves its own group.
PortfolioContentDrag(index, drag) ==
    /\ ~loadFailed
    /\ revision = PortfolioApp
    /\ index \in 0..(Len(views) - 1)
    /\ ~views[index + 1].isEditing
    /\ edits < MaxEdits
    /\ views' = [ views EXCEPT ![index + 1].contentDrag = drag ]
    /\ edits' = edits + 1
    /\ last' = Ran("PortfolioContentDrag", index, TRUE)
    /\ UNCHANGED << revision, modelColor, loadFailed >>
    /\ UNCHANGED << effectRun, modelUrlRef, modelLoaded, groupRefCurrent,
                    annotations, showSelectionPanel, pendingPoint,
                    pendingModelRef, finalizeCount, lastPick, overwrote >>

InitScene ==
    /\ revision \in Revisions
    /\ effectRun = TRUE
    /\ modelUrlRef = DefaultAssetUrl
    /\ modelLoaded = TRUE
    /\ groupRefCurrent = DefaultAssetUrl
    /\ \E n \in 1..MaxScene :
          /\ annotations \in [ 1..n -> SceneRecords(revision) ]
          /\ views = [ i \in 1..n |->
                          IF revision = SelectionPanelApp
                          THEN MountAnnotation(annotations[i])
                          ELSE PortfolioMountAnnotation(annotations[i]) ]
          /\ finalizeCount = IF revision = SelectionPanelApp THEN n ELSE 0
    /\ showSelectionPanel = FALSE
    /\ pendingPoint = NullPoint
    /\ pendingModelRef = NullRef
    /\ lastPick = NoHit
    /\ overwrote = FALSE
    /\ modelColor = InitialColor(revision)
    /\ loadFailed = FALSE
    /\ edits = 0
    /\ last = Ran("init", 0, FALSE)

NextScene ==
    \/ \E index \in 0..(MaxScene - 1), value \in BOOLEAN : setIsEditing(index, value)
    \/ \E index \in 0..(MaxScene - 1) : handleDelete(index)
    \/ \E index \in 0..(MaxScene - 1), ray \in Rays : handlePivotDrag(index, ray)
    \/ \E index \in 0..(MaxScene - 1), drag \in ContentDrags :
           handleContentDrag(index, drag)
    \/ \E index \in 0..(MaxScene - 1), value \in BOOLEAN :
           PortfolioSetIsEditing(index, value)
    \/ \E index \in 0..(MaxScene - 1), ray \in Rays : PortfolioHandleDrag(index, ray)
    \/ \E index \in 0..(MaxScene - 1), drag \in ContentDrags :
           PortfolioContentDrag(index, drag)

SpecScene == InitScene /\ [][NextScene]_vars

\* =================================================================== claims
\* The step is a finalize that passes the handler's guard.
TextFinalizes ==
    /\ last'.op = "handleTextSelection"
    /\ pendingPoint # NullPoint
    /\ pendingModelRef # NullRef

ImageFinalizes ==
    /\ last'.op = "handleImageUpload"
    /\ last'.acted
    /\ pendingPoint # NullPoint
    /\ pendingModelRef # NullRef

\* The step adds one record at the end of the store and keeps the others.
AppendsOne ==
    /\ Len(annotations') = Len(annotations) + 1
    /\ SubSeq(annotations', 1, Len(annotations)) = annotations

\* The record at the end of the store after the step.
NewRecord == annotations'[Len(annotations')]

\* The step is an anchor drag-continuation, in either revision.
AnchorDrags == last'.op \in {"handlePivotDrag", "PortfolioHandleDrag"}

\* C1: handleTextSelection with a pending point and pending targetRef appends
\* exactly one record at the end of the store, with contentKind Text, content
\* "Annotation" and the pending targetRef, clears the pending point and
\* targetRef and hides the selection panel.
C1_TextFinalizeAppends ==
    [][ TextFinalizes =>
            /\ AppendsOne
            /\ NewRecord.isImage = FALSE
            /\ NewRecord.contentRef = "Annotation"
            /\ NewRecord.modelRef = pendingModelRef
            /\ pendingPoint' = NullPoint
            /\ pendingModelRef' = NullRef
            /\ showSelectionPanel' = FALSE ]_vars

\* C1 witness: a Text finalize has just added a record to a store that held
\* one already.
C1_Witness ==
    /\ last.op = "handleTextSelection" /\ last.acted
    /\ Len(annotations) >= 2
    /\ ~annotations[Len(annotations)].isImage
    /\ pendingPoint = NullPoint

\* C2: a pick never appends a record by itself, the store grows only by
\* finalize actions: in every state the number of records is at most the
\* number of finalize actions performed.
C2_PickNeverAppends == Len(annotations) <= finalizeCount

\* C3: the pending pick is a single slot.  A pick sets the pending point and
\* targetRef to its own whether or not one was pending, and appends nothing; a
\* finalize appends exactly one record, whose anchor and targetRef are those
\* of the last pick.
C3_SingleSlotLastPickWins ==
    [][ /\ last'.op = "handleModelClick" =>
               /\ pendingPoint' = lastPick'.point
               /\ pendingModelRef' = groupRef
               /\ annotations' = annotations
        /\ TextFinalizes \/ ImageFinalizes =>
               /\ AppendsOne
               /\ NewRecord.positionRef = lastPick.point
               /\ NewRecord.modelRef = groupRef ]_vars

\* C3 witness: a finalize has just appended the record of a pick that had
\* replaced a pending pick at another point.
C3_Witness ==
    /\ last.op \in {"handleTextSelection", "handleImageUpload"} /\ last.acted
    /\ overwrote

\* C4: Cancel appends no record, hides the panel and clears the pending point
\* and targetRef.
C4_CancelClearsPending ==
    [][ last'.op = "CancelSelection" =>
            /\ annotations' = annotations
            /\ showSelectionPanel' = FALSE
            /\ pendingPoint' = NullPoint
            /\ pendingModelRef' = NullRef ]_vars

\* C5: handleImageUpload with a file and a pending pick appends exactly one
\* record at the end, with contentKind Image, content the file's object URL,
\* anchor from the pending point and targetRef from the pending targetRef,
\* clears the pending pick and hides the selection panel.
C5_ImageFinalizeAppends ==
    [][ ImageFinalizes =>
            /\ AppendsOne
            /\ NewRecord.isImage = TRUE
            /\ NewRecord.contentRef \in {"blob:" \o f : f \in ImageFiles}
            /\ NewRecord.positionRef = pendingPoint
            /\ NewRecord.modelRef = pendingModelRef
            /\ pendingPoint' = NullPoint
            /\ pendingModelRef' = NullRef
            /\ showSelectionPanel' = FALSE ]_vars

\* C5 witness: an Image finalize has just added a record to a store that held
\* one already.
C5_Witness ==
    /\ last.op = "handleImageUpload" /\ last.acted
    /\ Len(annotations) >= 2
    /\ annotations[Len(annotations)].isImage
    /\ pendingPoint = NullPoint

\* The step is the image-upload handler running with no file while a pick is
\* pending.
ImageSelectionCancelled ==
    /\ last'.op = "handleImageUpload"
    /\ ~last'.acted
    /\ pendingPoint # NullPoint
    /\ pendingModelRef # NullRef

\* C6 as stated: when the image-upload handler runs with no file during a
\* pending pick, no record is appended and the pending pick is cleared.
C6_NoFileClearsPending ==
    [][ ImageSelectionCancelled =>
            /\ annotations' = annotations
            /\ pendingPoint' = NullPoint
            /\ pendingModelRef' = NullRef
            /\ showSelectionPanel' = FALSE ]_vars

\* C6 amended: when the image-upload handler runs with no file during a
\* pending pick, no record is appended and the pending pick is kept as it was:
\* pending point, pending targetRef and the visible selection panel are
\* unchanged.
C6_NoFileKeepsPending ==
    [][ ImageSelectionCancelled =>
            /\ annotations' = annotations
            /\ pendingPoint' = pendingPoint
            /\ pendingModelRef' = pendingModelRef
            /\ showSelectionPanel' = showSelectionPanel ]_vars

\* C6 witness: the handler has just run with no file; the panel still shows
\* the pending pick.
C6_Witness ==
    /\ last.op = "handleImageUpload" /\ ~last.acted
    /\ showSelectionPanel
    /\ pendingPoint # NullPoint

\* C7: an anchor drag whose ray misses the bound mesh changes no record (the
\* anchor included) and leaves the anchor handle where it was.
C7_DragMissIsNoOp ==
    [][ AnchorDrags /\ ~last'.acted =>
            /\ annotations' = annotations
            /\ views' = views ]_vars

\* C7 witness: a drag has just missed the loaded mesh, on a record whose
\* anchor an earlier drag had moved.
C7_Witness ==
    /\ last.op = "handlePivotDrag" /\ ~last.acted
    /\ groupRefCurrent # NoMesh
    /\ \E ray \in Rays :
           /\ Len(intersectObject(groupRefCurrent, ray)) > 0
           /\ annotations[last.index + 1].positionRef =
                  VAdd(intersectObject(groupRefCurrent, ray)[1].point,
                       VScale(intersectObject(groupRefCurrent, ray)[1].normal,
                              offsetDistance))

\* C8: an anchor drag whose ray hits the bound mesh sets the record's anchor to
\* the nearest intersection point offset by the epsilon along the normal, and
\* the handle's position equals the stored anchor.
C8_DragHitAnchorEqualsHandle ==
    [][ AnchorDrags /\ last'.acted =>
            LET i == last'.index + 1 IN
            /\ \E ray \in Rays, eps \in {offsetDistance, portfolioOffset} :
                   LET hits == intersectObject(Current(annotations[i].modelRef), ray)
                   IN  /\ Len(hits) > 0
                       /\ annotations'[i].positionRef =
                              VAdd(hits[1].point, VScale(hits[1].normal, eps))
            /\ views'[i].pivotPosition = annotations'[i].positionRef ]_vars

\* C9: the anchor of a newly appended record is the pick's point offset by
\* epsilon along the pick's normal.
C9_NewAnchorIsOffset ==
    [][ TextFinalizes \/ ImageFinalizes =>
            NewRecord.positionRef =
                VAdd(lastPick.point, VScale(lastPick.normal, offsetDistance)) ]_vars

\* C10: handleDelete(index) removes exactly the record at index: the length
\* drops by one, lower indices keep their record, higher ones move down by one.
C10_RemoveAtReindexes ==
    [][ last'.op = "handleDelete" =>
            /\ Len(annotations') = Len(annotations) - 1
            /\ \A j \in 1..Len(annotations') :
                   annotations'[j] = IF j <= last'.index THEN annotations[j]
                                     ELSE annotations[j + 1] ]_vars

\* C10 witness: two records were appended and removeAt(0) has just left one.
C10_Witness ==
    /\ last.op = "handleDelete"
    /\ last.index = 0
    /\ finalizeCount = 2
    /\ Len(annotations) = 1

\* The step is a handleTypeChange; Changed is the index, from 1, of the
\* record it was called for.
TypeChanges == last'.op = "handleTypeChange"
Changed == last'.index + 1

\* The step leaves the store's length and every record but the one at Changed
\* as they are.
OnlyChangedRecord ==
    /\ Len(annotations') = Len(annotations)
    /\ \A j \in 1..Len(annotations) :
           j # Changed => annotations'[j] = annotations[j]

IndexedOps ==
    { "handleTypeChange", "handleTextChange", "handlePivotDrag",
      "PortfolioHandleDrag", "handleContentDrag", "setIsEditing" }

\* C12: index stability without removal.  In a step of any handler but
\* Delete the store does not shrink, the record at every index that existed
\* stays where it is, keeps its targetRef and changes only if the handler was
\* called for that index, and a handler called for an index leaves the
\* Annotation components at the other indices as they are.
C12_IndexStableWithoutRemoval ==
    [][ last'.op # "handleDelete" =>
            /\ Len(annotations') >= Len(annotations)
            /\ \A j \in 1..Len(annotations) :
                   /\ annotations'[j].modelRef = annotations[j].modelRef
                   /\ annotations'[j] # annotations[j] =>
                          (last'.op \in IndexedOps /\ j = Changed)
            /\ last'.op \in IndexedOps =>
                   \A j \in 1..Len(views) : j # Changed => views'[j] = views[j] ]_vars

\* C12 witness: nothing was ever removed from a store of two records, and a
\* text edit addressed to index 1 has changed the second record and not the
\* first.
C12_Witness ==
    /\ last.op = "handleTextChange" /\ last.index = 1
    /\ finalizeCount = 2 /\ Len(annotations) = 2
    /\ annotations[2].contentRef = "note"
    /\ annotations[1].contentRef # "note"

\* The handlers that load a model, change its colour, pick and cancel.
SessionOps ==
    { "DefaultAsset", "handleFileUpload", "PortfolioHandleFileUpload",
      "LoadComplete", "LoadFail", "handleColorChange",
      "PortfolioHandleColorChange", "handleModelClick", "CancelSelection" }

\* C13: records are destroyed by explicit deletion only.  The store gets
\* shorter in a step of Delete only; loading or reloading a model, changing
\* the colour, picking and cancelling leave the store as it is; drags and
\* edits keep its length and order, changing at most the record they were
\* called for.
C13_OnlyDeleteRemoves ==
    [][ /\ Len(annotations') < Len(annotations) => last'.op = "handleDelete"
        /\ last'.op \in SessionOps => annotations' = annotations
        /\ last'.op \in IndexedOps => OnlyChangedRecord ]_vars

\* C13 witness: two records anchored on the default asset are still in the
\* store, in order, after another model was selected and loaded.
C13_Witness ==
    /\ last.op = "LoadComplete"
    /\ groupRefCurrent = ObjectURL("a.glb")
    /\ Len(annotations) = 2
    /\ annotations[1].isImage /\ ~annotations[2].isImage
    /\ annotations[1].positionRef = PickedPoint

\* The anchors an annotation can have on a mesh: the nearest hit of a ray, as
\* a pick stores it, or that hit moved off the surface, as a drag stores it.
AnchorsOn(mesh) ==
    UNION { { intersectObject(mesh, ray)[1].point,
              PivotNewPosition(intersectObject(mesh, ray)[1]) } :
            ray \in { r \in Rays : Len(intersectObject(mesh, r)) > 0 } }

\* C14: stale target.  An anchor drag of an annotation whose anchor is not on
\* the mesh now displayed (the model it was made on is unloaded, or another
\* model was loaded) changes neither the record nor the handle, so an anchor
\* is never resolved against a model other than the annotation's own.
C14_StaleTargetDragIsNoOp ==
    [][ (AnchorDrags /\ annotations[Changed].positionRef \notin AnchorsOn(groupRefCurrent)) =>
            /\ annotations' = annotations
            /\ views'[Changed].pivotPosition = views[Changed].pivotPosition ]_vars

\* C15: the two drag domains are independent.  An anchor drag leaves the
\* contentPositionRef and the panel position of every annotation as they
\* are; a content drag leaves every anchor and handle as they are; either
\* leaves the records and components of the other annotations untouched.
C15_DragDomainsIndependent ==
    [][ /\ AnchorDrags =>
               /\ \A j \in 1..Len(views) :
                      /\ views'[j].contentPositionRef = views[j].contentPositionRef
                      /\ ContentWorldPosition(views'[j]) = ContentWorldPosition(views[j])
                      /\ j # Changed => views'[j] = views[j]
               /\ OnlyChangedRecord
        /\ last'.op = "handleContentDrag" =>
               /\ annotations' = annotations
               /\ views'[Changed].pivotPosition = views[Changed].pivotPosition
               /\ \A j \in 1..Len(views) : j # Changed => views'[j] = views[j] ]_vars

\* C15 witness: the first of two annotations had its anchor dragged onto the
\* offset surface point and then its content panel dragged; its
\* contentPositionRef is still the one of the pick, the other annotation is
\* where it was made.
C15_Witness ==
    /\ last.op = "handleContentDrag" /\ last.index = 0 /\ last.acted
    /\ Len(annotations) = 2
    /\ annotations[1].positionRef = PivotNewPosition(intersectObject(DefaultAssetUrl, "front")[1])
    /\ views[1].contentDrag # NoDrag
    /\ views[1].contentPositionRef = VAdd(PickedPoint, <<contentOffset, 0, contentOffset>>)
    /\ annotations[2].positionRef = PickedPoint
    /\ views[2].contentDrag = NoDrag

\* The handle, the content panel and the line of a component are attached.
Attached(v) == v.pivotRef /\ v.contentMeshRef /\ v.lineRef

C17_FrameAllOrNothing ==
    [][ last'.op = "useFrame" =>
            \A i \in 1..Len(views) :
                IF Attached(views[i])
                THEN views'[i].positions =
                         << PivotWorldPosition(views[i]), ContentWorldPosition(views[i]) >>
                ELSE views'[i].positions = views[i].positions ]_vars

\* C17 witness: after a frame over two annotations, the one whose content
\* panel is not attached (its handle and line are) still has the initial
\* line, the other has its line written.
C17_Witness ==
    /\ last.op = "useFrame"
    /\ Len(views) = 2
    /\ views[1].pivotRef /\ views[1].lineRef /\ ~views[1].contentMeshRef
    /\ views[1].positions = NoLine
    /\ Attached(views[2])
    /\ views[2].positions = << views[2].pivotPosition,
                              VAdd(views[2].contentMeshPosition, views[2].contentDrag) >>

\* The session is in ModelReady: Model has rendered the group around the
\* loaded scene.  (modelLoaded is set when an asset is selected and only lets
\* Model mount and start loading.)
ModelReady == groupRefCurrent # NoMesh

\* The step selects an asset: a model file, or the default path.
SelectsAsset ==
    \/ last'.op \in {"handleFileUpload", "PortfolioHandleFileUpload"} /\ last'.acted
    \/ last'.op = "DefaultAsset"

PickPointsOn(mesh) ==
    { intersectObject(mesh, ray)[1].point :
        ray \in { r \in Rays : Len(intersectObject(mesh, r)) > 0 } }

\* C19: a pending pick exists only while a model is ready.  In every state
\* in which the selection panel shows a pending pick, a model is ready and
\* the pending point lies on the mesh the pending targetRef refers to.
C19_PendingImpliesReady ==
    (showSelectionPanel /\ pendingPoint # NullPoint) =>
        /\ ModelReady
        /\ pendingPoint \in PickPointsOn(Current(pendingModelRef))

\* C20: edit mode is local to one annotation.  Entering or leaving edit mode
\* flips the isEditing of the Annotation it was called for and leaves every
\* other Annotation, and the store, as they are.
C20_EditModeIsLocal ==
    [][ last'.op = "setIsEditing" =>
            /\ views'[Changed].isEditing = ~views[Changed].isEditing
            /\ \A j \in 1..Len(views) : j # Changed => views'[j] = views[j]
            /\ Len(views') = Len(views)
            /\ annotations' = annotations ]_vars

\* C20 witness: the second of two annotations has just entered edit mode
\* while the first is being edited.
C20_Witness ==
    /\ last.op = "setIsEditing" /\ last.index = 1
    /\ Len(views) = 2
    /\ views[1].isEditing /\ views[2].isEditing

\* C21: a content-panel drag stores the panel's world position.  Right after
\* a content drag event that passed its guard, contentPositionRef of that
\* annotation is the world position of its content panel, the one the
\* useFrame callback gives the line's second endpoint.
C21_ContentDragStoresWorldPosition ==
    (last.op = "handleContentDrag" /\ last.acted) =>
        views[last.index + 1].contentPositionRef =
            ContentWorldPosition(views[last.index + 1])

\* C22 as stated: in every state the content of every record is a string,
\* never null or undefined.
C22_ContentNeverNull ==
    \A i \in 1..Len(annotations) :
        annotations[i].contentRef \notin {NullContent, NoContent}

\* C22 amended: in every state the content of every record is a string or
\* null, never undefined, and it is null for image records only (those that
\* handleTypeChange made an image without a content).
C22_OnlyImageContentNull ==
    \A i \in 1..Len(annotations) :
        /\ annotations[i].contentRef # NoContent
        /\ annotations[i].contentRef = NullContent => annotations[i].isImage

\* C22 witness: handleTypeChange has just made the first of two records an
\* image without content; its content is null, the other record's is text.
C22_Witness ==
    /\ last.op = "handleTypeChange" /\ last.index = 0 /\ ~Truthy(last.arg)
    /\ Len(annotations) = 2
    /\ annotations[1].isImage /\ annotations[1].contentRef = NullContent
    /\ ~annotations[2].isImage /\ annotations[2].contentRef = "Annotation"

\* C23 as stated: after handleDelete(i) and the re-render every surviving
\* annotation is shown with the view state it had before the removal: the
\* content displayed, the editing flag and the content-panel position of the
\* view at its new index are those of the view at its old index.
C23_SurvivorsKeepViewState ==
    [][(last'.op = "handleDelete" /\ last'.acted) =>
          \A j \in 1..Len(annotations') :
              LET old == IF j <= last'.index THEN j ELSE j + 1
              IN  /\ views'[j].content = views[old].content
                  /\ views'[j].isEditing = views[old].isEditing
                  /\ views'[j].contentPositionRef =
                         views[old].contentPositionRef]_vars

\* C24 as stated: in every state no image annotation is in edit mode, so the
\* drag of an image annotation's content panel is never disabled.
C24_ImageNeverEditing ==
    \A i \in 1..Len(views) :
        (annotations[i].isImage /\ views[i].isImage) => ~views[i].isEditing

\* A drag of the anchor of the annotation at index that hits the model.
AnchorDragActs(index) ==
    /\ handlePivotDrag(index, "front") \/ PortfolioHandleDrag(index, "front")
    /\ last'.acted

\* A drag of the content panel of the annotation at index.
ContentDragActs(index) ==
    \E drag \in ContentDrags :
        handleContentDrag(index, drag) \/ PortfolioContentDrag(index, drag)

\* C25: in every state, for an annotation in edit mode the drag of its
\* content panel is disabled (no content-drag step can be taken on it, and
\* the last step was not one), while a drag of its anchor that hits the model
\* can act; for an annotation not in edit mode (never edited, or closed
\* again) the drag of its content panel can be taken.
C25_EditModeDisablesContentDrag ==
    \A i \in 1..Len(views) :
        /\ views[i].isEditing =>
              /\ ~ENABLED ContentDragActs(i - 1)
              /\ ~(/\ last.op \in {"handleContentDrag", "PortfolioContentDrag"}
                   /\ last.index = i - 1)
              /\ ENABLED AnchorDragActs(i - 1)
        /\ (~views[i].isEditing /\ edits < MaxEdits) =>
              ENABLED ContentDragActs(i - 1)

\* C25 witness: an anchor drag has just moved the anchor of an annotation
\* that is in edit mode, next to an annotation whose content panel was
\* dragged before.
C25_Witness ==
    /\ last.op \in {"handlePivotDrag", "PortfolioHandleDrag"} /\ last.acted
    /\ views[last.index + 1].isEditing
    /\ \E i \in 1..Len(views) : views[i].contentDrag # NoDrag

\* "Add Text" appends exactly one record, made of the pending pick.
AddTextAppendsOne ==
    /\ handleTextSelection
    /\ annotations' = Append(annotations, TextRecord(pendingPoint, pendingModelRef))

\* C26: in every state where the selection panel is visible a pending pick is
\* held (the pending point and the pending model reference are not null), and
\* "Add Text" can be taken and appends exactly one record; every "Add Text"
\* taken has appended its record.
C26_PanelHoldsPendingPick ==
    /\ showSelectionPanel =>
          /\ pendingPoint # NullPoint
          /\ pendingModelRef # NullRef
          /\ ~loadFailed => ENABLED AddTextAppendsOne
    /\ last.op = "handleTextSelection" => last.acted

\* C26 witness: "Add Text" has just appended a second record while the panel
\* was visible; the panel is closed and the pending pick cleared.
C26_Witness ==
    /\ last.op = "handleTextSelection" /\ last.acted
    /\ Len(annotations) = 2
    /\ ~showSelectionPanel /\ pendingPoint = NullPoint
====
